---- MODULE Spec2Model ----
(***************************************************************************)
(* A model of gitlab2gogs.py: the GitlabBackup class (archive iteration,   *)
(* namespace classification, report mode, import driver) and the remote    *)
(* Gogs server it talks to.                                                *)
(*                                                                         *)
(* A Python str is a sequence of one-character strings.  A character that  *)
(* is not ASCII is written by its code point ("U+00E9").                   *)
(***************************************************************************)
EXTENDS Integers, Sequences, FiniteSets, TLC

VARIABLES
    supplied,    \* the -u/--user values as the operator typed them
    backupfile,  \* self.backupfile.getmembers(): the member paths, in order
    usernames,   \* self.usernames
    gogs,        \* the remote server: repos, tokens, pushed mirrors
    pc,          \* position of the running command
    idx,         \* importRepos: index of the record the loop is at
    calls,       \* remote API / push calls made in this run, in order
    outcome,     \* importRepos: per record, how importRepo left it
    before,      \* importRepos: per record, the remote state it started from
    fs,          \* importRepos: per record, its temp directory and what raised
    error,       \* the exception that left the command ("none" if none)
    run,         \* "first" or "rerun"
    runStart,    \* the remote state at the start of the current run
    stdout,      \* lines printed by analyzeRepos
    arg,         \* classifier checks: the namespace string handed in
    ret,         \* organizationNameFromGroupName(arg)
    ret2,        \* organizationNameFromGroupName(ret)
    retUser,     \* isUserRepo(record with membership = arg)
    records      \* the records iter(self) yields, as last evaluated

vars == <<supplied, backupfile, usernames, gogs, pc, idx, calls, outcome,
          before, fs, error, run, runStart, stdout, arg, ret, ret2, retUser, records>>

----------------------------------------------------------------------------
(* Bounds *)

MaxNameLen == 3
MaxMidLen == 3
MaxMembers == 2

----------------------------------------------------------------------------
(* Characters and Python str methods *)

Digits == {"0", "1", "2", "3", "4", "5", "6", "7", "8", "9"}
LowerSeq == <<"a", "b", "c", "d", "e", "f", "g", "h", "i", "j", "k", "l", "m",
              "n", "o", "p", "q", "r", "s", "t", "u", "v", "w", "x", "y", "z">>
UpperSeq == <<"A", "B", "C", "D", "E", "F", "G", "H", "I", "J", "K", "L", "M",
              "N", "O", "P", "Q", "R", "S", "T", "U", "V", "W", "X", "Y", "Z">>
AsciiLower == {LowerSeq[i] : i \in 1..26}
AsciiUpper == {UpperSeq[i] : i \in 1..26}
AsciiAlnum == Digits \cup AsciiLower \cup AsciiUpper

\* Characters beyond ASCII that the model draws from:
\* U+00E9 (e acute, a lower-case letter), U+00C9 (E acute, its upper case),
\* U+0663 (ARABIC-INDIC DIGIT THREE), U+20AC (EURO SIGN, no letter or digit).
UnicodeLetters == {"U+00E9", "U+00C9"}
UnicodeDigits == {"U+0663"}

\* str.isalnum() for one character: Unicode letters and digits count.
IsAlnumChar(c) == c \in AsciiAlnum \cup UnicodeLetters \cup UnicodeDigits

\* str.isalnum(): at least one character and all of them alphanumeric.
isalnum(s) == Len(s) > 0 /\ \A i \in 1..Len(s) : IsAlnumChar(s[i])

LowerChar(c) ==
    IF c \in AsciiUpper THEN LowerSeq[CHOOSE i \in 1..26 : UpperSeq[i] = c]
    ELSE IF c = "U+00C9" THEN "U+00E9"
    ELSE c

\* str.lower()
lower(s) == [i \in 1..Len(s) |-> LowerChar(s[i])]

\* str.replace(old, new) for one-character old and new
replace(s, old, new) == [i \in 1..Len(s) |-> IF s[i] = old THEN new ELSE s[i]]

\* the character class [0-9a-zA-Z\-_\.\/] of line 108 (the regex negates it)
OrgNameClass == AsciiAlnum \cup {"-", "_", ".", "/"}

\* re.sub(r"[^...]", repl, s) for a negated character class
resub(class, repl, s) == [i \in 1..Len(s) |-> IF s[i] \in class THEN s[i] ELSE repl]

----------------------------------------------------------------------------
(* Namespace classifier *)

\* faulty variant: the '.' is missing from the character class
organizationNameFromGroupName_noDot(name) ==
    IF isalnum(name) THEN name
    ELSE replace(resub(OrgNameClass \ {"."}, "_", name), "/", ".")

\* faulty variant: no isalnum shortcut and the digits are missing from the class
organizationNameFromGroupName_noDigits(name) ==
    replace(resub(OrgNameClass \ Digits, "_", name), "/", ".")

organizationNameFromGroupName(name) ==
    IF isalnum(name) THEN name
    ELSE replace(resub(OrgNameClass, "_", name), "/", ".")

\* faulty variant: the supplied usernames are kept as typed
InitUsernames_asTyped(user) == user

\* __init__: self.usernames = [username.lower() for username in usernames]
InitUsernames(user) == [i \in 1..Len(user) |-> lower(user[i])]

\* x in list
InList(x, list) == \E i \in 1..Len(list) : list[i] = x

isUserRepo(gitlabrepo, names) == InList(lower(gitlabrepo.membership), names)

----------------------------------------------------------------------------
(* Archive index: __iter__ *)

LF == "LF"   \* the line feed character

\* the literal parts of the pattern of line 41
RepoDir == <<"r", "e", "p", "o", "s", "i", "t", "o", "r", "i", "e", "s", "/">>
BundleExt == <<".", "b", "u", "n", "d", "l", "e">>

HasNoLF(s) == \A i \in 1..Len(s) : s[i] # LF

\* '\.bundle$' on the rest t of the path after group 2 started: group 2 is
\* '.*' (no line feed in it), then '.bundle', then the end of the string or
\* a line feed that ends the string.
EndsPattern(t) ==
    \/ /\ Len(t) >= Len(BundleExt)
       /\ SubSeq(t, Len(t) - Len(BundleExt) + 1, Len(t)) = BundleExt
       /\ HasNoLF(SubSeq(t, 1, Len(t) - Len(BundleExt)))
    \/ /\ Len(t) >= Len(BundleExt) + 1
       /\ t[Len(t)] = LF
       /\ SubSeq(t, Len(t) - Len(BundleExt), Len(t) - 1) = BundleExt
       /\ HasNoLF(SubSeq(t, 1, Len(t) - Len(BundleExt) - 1))

\* group 2 of a match whose rest is t
Group2(t) ==
    IF t[Len(t)] = LF THEN SubSeq(t, 1, Len(t) - Len(BundleExt) - 1)
    ELSE SubSeq(t, 1, Len(t) - Len(BundleExt))

\* the positions of a '/' at which '^repositories/(.*)/(.*)\.bundle$' can
\* split the path: group 1 before it (no line feed in it), the rest after it
SplitPoints(path) ==
    {k \in (Len(RepoDir) + 1)..Len(path) :
        /\ SubSeq(path, 1, Len(RepoDir)) = RepoDir
        /\ path[k] = "/"
        /\ HasNoLF(SubSeq(path, Len(RepoDir) + 1, k - 1))
        /\ EndsPattern(SubSeq(path, k + 1, Len(path)))}

SetMax(S) == CHOOSE x \in S : \A y \in S : y <= x

MatchAt(path, k) ==
    << <<SubSeq(path, Len(RepoDir) + 1, k - 1),
         Group2(SubSeq(path, k + 1, Len(path)))>> >>

\* re.findall(r"^repositories/(.*)/(.*)\.bundle$", path): no match gives [],
\* a match gives [(group 1, group 2)]; group 1 is greedy, so it ends at the
\* last '/' that lets the rest match
refindall(path) ==
    IF SplitPoints(path) = {} THEN <<>>
    ELSE MatchAt(path, SetMax(SplitPoints(path)))

\* __iter__: (fi.name, *findall) per member, those longer than 1 kept, each
\* made a GitLabRepo(bundle, membership, name)
iter(members) ==
    LET infos == [i \in 1..Len(members) |-> <<members[i]>> \o refindall(members[i])]
        kept == SelectSeq(infos, LAMBDA fi : Len(fi) > 1)
    IN  [i \in 1..Len(kept) |->
            [bundle |-> kept[i][1], membership |-> kept[i][2][1], name |-> kept[i][2][2]]]

----------------------------------------------------------------------------
(* The remote Gogs server, as the calls of lines 48-101 use it.            *)
(* A remote state is [repos, tokens, pushed]: the (owner, name) pairs that *)
(* exist, the accounts holding a "gitlab2gogs" token, and the (owner,      *)
(* name) pairs a mirror was pushed to.                                     *)

\* self.gogsauth.username: the administrative account (--gogsadmin)
gogsadmin == <<"r", "o", "o", "t">>

NoOrganization == <<>>   \* organization=None

\* gogsapi.repo_exists(auth, owner, name)
repo_exists(g, owner, name) == <<owner, name>> \in g.repos

\* gogsapi.ensure_token(auth, "gitlab2gogs", username): reuse or create
ensure_token(g, username) == [g EXCEPT !.tokens = @ \cup {username}]

\* the owner gogsapi.create_repo(userauth, name, ..., organization) creates
\* under: the organization if one is given, else the token's account
CreateOwner(tokenUser, organization) ==
    IF organization # NoOrganization THEN organization ELSE tokenUser

\* the server refuses to create a repository that exists
CanCreate(g, owner, name) == <<owner, name>> \notin g.repos

create_repo(g, owner, name) == [g EXCEPT !.repos = @ \cup {<<owner, name>>}]

\* git push --mirror <gogsbaseurl>/<owner>/<name>.git needs the repository
CanPush(g, owner, name) == <<owner, name>> \in g.repos

push(g, owner, name) == [g EXCEPT !.pushed = @ \cup {<<owner, name>>}]

Call(op, auth, owner, name, ok) ==
    [op |-> op, auth |-> auth, owner |-> owner, name |-> name, ok |-> ok]

\* what an import strategy hands back: the calls it made, the remote state
\* it leaves, the exception it raised ("none" if it returned), the state the
\* record ends in, and the step that failed on its own (the network, the
\* disk, git), "none" if no step did
Left(cs, g, raised, state, fault) ==
    [calls |-> cs, gogs |-> g, raised |-> raised, state |-> state, fault |-> fault]

\* create_repo and push of an import strategy, after its existence check
\* and ensure_token: tokenUser holds the token, organization is the keyword
\* argument of create_repo, pushOwner the owner segment of the push URL
CreateAndPush(cs, g, tokenUser, organization, pushOwner, name, fail) ==
    LET owner == CreateOwner(tokenUser, organization)
        cCreate(ok) == Call("create_repo", tokenUser, organization, name, ok)
        cPush(ok) == Call("push", gogsadmin, pushOwner, name, ok)
    IN  IF fail = "create_repo"
        THEN Left(cs \o <<cCreate(FALSE)>>, g, "ApiError", "Failed", fail)
        ELSE IF ~CanCreate(g, owner, name)
        THEN Left(cs \o <<cCreate(FALSE)>>, g, "ApiError", "Failed", "none")
        ELSE LET g2 == create_repo(g, owner, name)
                 cs2 == cs \o <<cCreate(TRUE)>>
             IN  IF fail = "push"
                 THEN Left(cs2 \o <<cPush(FALSE)>>, g2, "PushError", "Failed", fail)
                 ELSE IF ~CanPush(g2, pushOwner, name)
                 THEN Left(cs2 \o <<cPush(FALSE)>>, g2, "PushError", "Failed", "none")
                 ELSE Left(cs2 \o <<cPush(TRUE)>>, push(g2, pushOwner, name),
                           "none", "Imported", "none")

\* the existence check, skip, and ensure_token of an import strategy
CheckAndImport(g, checkOwner, tokenUser, organization, pushOwner, name, fail) ==
    LET cExists(ok) == Call("repo_exists", gogsadmin, checkOwner, name, ok)
        cToken(ok) == Call("ensure_token", gogsadmin, tokenUser, <<>>, ok)
    IN  IF fail = "repo_exists"
        THEN Left(<<cExists(FALSE)>>, g, "ApiError", "Failed", fail)
        ELSE IF repo_exists(g, checkOwner, name)
        THEN Left(<<cExists(TRUE)>>, g, "none", "Skipped", "none")
        ELSE IF fail = "ensure_token"
        THEN Left(<<cExists(TRUE), cToken(FALSE)>>, g, "ApiError", "Failed", fail)
        ELSE CreateAndPush(<<cExists(TRUE), cToken(TRUE)>>,
                           ensure_token(g, tokenUser),
                           tokenUser, organization, pushOwner, name, fail)

\* faulty variant: no existence check, the repository is created right away
importUserRepo_noCheck(gitlabrepo, g, fail) ==
    CreateAndPush(<<>>, g, gitlabrepo.membership, NoOrganization,
                  gitlabrepo.membership, gitlabrepo.name, fail)

importUserRepo(gitlabrepo, g, fail) ==
    CheckAndImport(g, gitlabrepo.membership, gitlabrepo.membership,
                   NoOrganization, gitlabrepo.membership, gitlabrepo.name, fail)

\* faulty variant: the organization is the group name as it stands
importGroupRepo_rawName(gitlabrepo, g, fail) ==
    CheckAndImport(g, gogsadmin, gogsadmin, gitlabrepo.membership,
                   gitlabrepo.membership, gitlabrepo.name, fail)

importGroupRepo(gitlabrepo, g, fail) ==
    CheckAndImport(g, gogsadmin, gogsadmin,
                   organizationNameFromGroupName(gitlabrepo.membership),
                   organizationNameFromGroupName(gitlabrepo.membership),
                   gitlabrepo.name, fail)

\* faulty variant: the directory is removed only when the block returns
TemporaryDirectoryExit_onReturnOnly(d, raised) ==
    IF raised = "none" THEN [tempdir |-> FALSE, bundle |-> FALSE, clone |-> FALSE]
    ELSE d

\* leaving 'with tempfile.TemporaryDirectory() as tempdir' (line 145), by
\* return or with the exception raised: the directory and all in it are
\* removed.  d is [tempdir, bundle, clone]: which of the temporary
\* directory, the staged bundle and the clone directory exist.
TemporaryDirectoryExit(d, raised) ==
    [tempdir |-> FALSE, bundle |-> FALSE, clone |-> FALSE]

\* importRepo: the temporary directory, extract, clone, dispatch, and the
\* finally clause.  fail names the step that raises in this attempt;
\* cloneLeft says whether a failed clone left its directory behind.
\* shutil.rmtree(clonedestpath, onerror=remove_readonly) on a path that does
\* not exist calls remove_readonly, whose os.chmod raises FileNotFoundError.
importRepo(gitlabrepo, names, g, fail, cloneLeft) ==
    LET strategy ==
            IF fail \in {"extract", "clone"} THEN "none"
            ELSE IF isUserRepo(gitlabrepo, names) THEN "user" ELSE "group"
        body ==
            IF fail = "extract" THEN Left(<<>>, g, "ExtractError", "Failed", fail)
            ELSE IF fail = "clone" THEN Left(<<>>, g, "CloneError", "Failed", fail)
            ELSE IF strategy = "user"
            THEN importUserRepo(gitlabrepo, g, fail)
            ELSE importGroupRepo(gitlabrepo, g, fail)
        cloneExists == fail # "extract" /\ (fail = "clone" => cloneLeft)
        \* the directory when the finally clause is reached
        d1 == [tempdir |-> TRUE, bundle |-> fail # "extract", clone |-> cloneExists]
        \* line 159: the clone directory is removed, or rmtree raises
        d2 == [d1 EXCEPT !.clone = FALSE]
        raised == IF d1.clone THEN body.raised ELSE "FileNotFoundError"
        d3 == TemporaryDirectoryExit(d2, raised)
    IN  [calls |-> body.calls,
         gogs |-> body.gogs,
         state |-> body.state,
         fault |-> body.fault,
         strategy |-> strategy,
         bodyRaised |-> body.raised,
         raised |-> raised,
         cloneMade |-> d1.clone,
         tempdir |-> d3.tempdir,
         bundle |-> d3.bundle,
         clone |-> d3.clone]

----------------------------------------------------------------------------
(* Inputs the runs are drawn from *)

RECURSIVE SeqsUpTo(_, _)
\* the sequences over S of length at most n
SeqsUpTo(S, n) ==
    IF n = 0 THEN {<<>>}
    ELSE LET shorter == SeqsUpTo(S, n - 1)
         IN  shorter \cup {Append(q, x) : q \in shorter, x \in S}

sAlice == <<"a", "l", "i", "c", "e">>
sAliceCap == <<"A", "l", "i", "c", "e">>
sTeamOne == <<"T", "e", "a", "m", " ", "O", "n", "e">>
sTeam_One == <<"T", "e", "a", "m", "_", "O", "n", "e">>
sEngSub == <<"e", "n", "g", "/", "s", "u", "b">>
sReadme == <<"R", "E", "A", "D", "M", "E">>
sP == <<"p">>
sQ == <<"q">>

Member(namespace, name) == RepoDir \o namespace \o <<"/">> \o name \o BundleExt

\* member paths of the archives the analyze command runs on
Members ==
    {Member(sAlice, sP), Member(sAliceCap, sP), Member(sTeamOne, sP),
     Member(sTeamOne, sQ), Member(sTeam_One, sP), Member(sEngSub, sP), sReadme}

\* member paths of the archives the import command runs on
ImportMembers ==
    {Member(sAlice, sP), Member(sTeamOne, sP), Member(sTeam_One, sP),
     Member(sEngSub, sP), sReadme}

Archives == SeqsUpTo(ImportMembers, MaxMembers)

\* what the operator may pass as --user
SuppliedChoices == {<<>>, <<sAlice>>, <<sAliceCap>>, <<sTeamOne, sAliceCap>>}

\* repositories the server may hold before the first run
InitialRepos ==
    {<<gogsadmin, sP>>, <<sAlice, sP>>, <<sTeam_One, sP>>}

InitialRemotes ==
    {[repos |-> r, tokens |-> {}, pushed |-> r] : r \in SUBSET InitialRepos}

FailPoints ==
    {"none", "extract", "clone", "repo_exists", "ensure_token", "create_repo", "push"}

----------------------------------------------------------------------------
(* The import command: importRepos *)

\* values of the variables a specification does not use
Idle ==
    /\ stdout = <<>>
    /\ arg = <<>>
    /\ ret = <<>>
    /\ ret2 = <<>>
    /\ retUser = FALSE

Init ==
    /\ supplied \in SuppliedChoices
    /\ backupfile \in Archives
    /\ usernames = InitUsernames(supplied)
    /\ records = iter(backupfile)
    /\ gogs \in InitialRemotes
    /\ pc = "import"
    /\ idx = 1
    /\ calls = <<>>
    /\ outcome = <<>>
    /\ before = <<>>
    /\ fs = <<>>
    /\ error = "none"
    /\ run = "first"
    /\ runStart = gogs
    /\ Idle

\* faulty variant: the loop stays at the record it just imported
AdvanceLoop_stay(i) == i

\* 'for gitlabrepo in self' (line 137): the loop moves to the next record
AdvanceLoop(i) == i + 1

\* one turn of the loop of importRepos: importRepo(gitlabrepo).  An
\* exception that leaves importRepo leaves importRepos and the command.
ImportRecord ==
    /\ pc = "import"
    /\ idx <= Len(records)
    /\ \E fail \in FailPoints, cloneLeft \in BOOLEAN :
         LET r == importRepo(records[idx], usernames, gogs, fail, cloneLeft)
         IN  /\ gogs' = r.gogs
             /\ calls' = calls \o [i \in 1..Len(r.calls) |-> <<idx, r.calls[i]>>]
             /\ outcome' = Append(outcome, r.state)
             /\ before' = Append(before, gogs)
             /\ fs' = Append(fs, [index |-> idx, member |-> records[idx].bundle,
                                   strategy |-> r.strategy,
                                   tempdir |-> r.tempdir, bundle |-> r.bundle,
                                   clone |-> r.clone, cloneMade |-> r.cloneMade,
                                   fault |-> r.fault,
                                   bodyRaised |-> r.bodyRaised, raised |-> r.raised])
             /\ error' = r.raised
             /\ pc' = IF r.raised = "none" THEN "import" ELSE "crashed"
             /\ idx' = IF r.raised = "none" THEN AdvanceLoop(idx) ELSE idx
    /\ UNCHANGED <<supplied, backupfile, usernames, run, runStart,
                   stdout, arg, ret, ret2, retUser, records>>

\* the loop of importRepos ran out of records: the command ends, exit code 0
ImportFinish ==
    /\ pc = "import"
    /\ idx > Len(records)
    /\ pc' = "done"
    /\ UNCHANGED <<supplied, backupfile, usernames, gogs, idx, calls, outcome,
                   before, fs, error, run, runStart,
                   stdout, arg, ret, ret2, retUser, records>>

\* the operator runs import once more, on the same archive and server
Rerun ==
    /\ pc = "done"
    /\ run = "first"
    /\ run' = "rerun"
    /\ runStart' = gogs
    /\ pc' = "import"
    /\ idx' = 1
    /\ calls' = <<>>
    /\ outcome' = <<>>
    /\ before' = <<>>
    /\ fs' = <<>>
    /\ error' = "none"
    /\ UNCHANGED <<supplied, backupfile, usernames, gogs,
                   stdout, arg, ret, ret2, retUser, records>>

Next == ImportRecord \/ ImportFinish \/ Rerun

Spec == Init /\ [][Next]_vars

----------------------------------------------------------------------------
(* Claims about the import command *)

Terminal == pc \in {"done", "crashed"}

\* the destination (owner, name) of a record: the namespace for a user
\* record, the derived organization id for a group record
Destination(gitlabrepo) ==
    <<IF isUserRepo(gitlabrepo, usernames) THEN gitlabrepo.membership
      ELSE organizationNameFromGroupName(gitlabrepo.membership),
      gitlabrepo.name>>

\* the calls importRepo made for record i of this run, in order
CallsOf(i) ==
    LET mine == SelectSeq(calls, LAMBDA c : c[1] = i)
    IN  [k \in 1..Len(mine) |-> mine[k][2]]

\* the remote state importRepo left record i with
After(i) == IF i < Len(before) THEN before[i + 1] ELSE gogs

\* no step of a record of this run failed on its own
NoFault == \A i \in 1..Len(fs) : fs[i].fault = "none"

\* every record's destination existed when this run started
AllImportedAtStart ==
    \A i \in 1..Len(records) : Destination(records[i]) \in runStart.repos

\* C1: a rerun over a remote state in which every record (user-owned and
\* group-owned) is already imported makes no create_repo call and no push,
\* skips every record, raises no error and ends normally.
C1_RerunOnlySkips ==
    (run = "rerun" /\ Terminal /\ AllImportedAtStart /\ NoFault) =>
        /\ pc = "done"
        /\ error = "none"
        /\ \A k \in 1..Len(calls) : calls[k][2].op \notin {"create_repo", "push"}
        /\ Len(outcome) = Len(records)
        /\ \A i \in 1..Len(outcome) : outcome[i] = "Skipped"

\* C2: a record whose destination exists when it is imported makes no
\* ensure_token, create_repo or push call and leaves the remote state as it
\* was.
C2_ExistingDestinationIsNoOp ==
    \A i \in 1..Len(outcome) :
        Destination(records[i]) \in before[i].repos =>
            /\ \A k \in 1..Len(CallsOf(i)) :
                   CallsOf(i)[k].op \notin {"ensure_token", "create_repo", "push"}
            /\ After(i) = before[i]

\* C3: after staging, cloning, repository creation or push failed for a
\* record the run goes on: it does not end at that record, every record
\* after it is processed, and the run completes normally.
C3_RunContinuesAfterFailure ==
    \A i \in 1..Len(outcome) :
        (outcome[i] = "Failed"
            /\ fs[i].fault \in {"extract", "clone", "create_repo", "push"}) =>
                /\ pc # "crashed"
                /\ Terminal => Len(outcome) = Len(records)

\* the calls a user record is to make, in order
UserCallOrder(gitlabrepo) ==
    <<[op |-> "repo_exists", owner |-> gitlabrepo.membership, name |-> gitlabrepo.name],
      [op |-> "ensure_token", owner |-> gitlabrepo.membership, name |-> <<>>],
      [op |-> "create_repo", owner |-> NoOrganization, name |-> gitlabrepo.name],
      [op |-> "push", owner |-> gitlabrepo.membership, name |-> gitlabrepo.name]>>

\* C4: for a user record the calls made are, in order, the existence check
\* for (namespace, name), ensure_token for namespace, create_repo of name
\* with the namespace's token and no organization, and the push to
\* namespace/name; each call is made only after the one before it succeeded,
\* all four are made when the record ends Imported, and a push never goes to
\* a repository that existed before this attempt.
C4_UserImportOrder ==
    \A i \in 1..Len(outcome) :
        isUserRepo(records[i], usernames) =>
            LET cs == CallsOf(i)
                want == UserCallOrder(records[i])
            IN  /\ Len(cs) <= Len(want)
                /\ \A k \in 1..Len(cs) :
                       /\ cs[k].op = want[k].op
                       /\ cs[k].owner = want[k].owner
                       /\ cs[k].name = want[k].name
                       /\ k < Len(cs) => cs[k].ok
                       /\ cs[k].op = "create_repo" => cs[k].auth = records[i].membership
                       /\ cs[k].op = "push" =>
                              <<cs[k].owner, cs[k].name>> \notin before[i].repos
                /\ (Destination(records[i]) \notin before[i].repos
                        /\ fs[i].fault = "none") =>
                       /\ outcome[i] = "Imported"
                       /\ Len(cs) = Len(want)
                       /\ cs[Len(cs)].ok
                       /\ Destination(records[i]) \in After(i).repos
                       /\ Destination(records[i]) \in After(i).pushed

\* C4 witness: a user record whose destination did not exist was imported
C4_Witness ==
    \E i \in 1..Len(outcome) :
        /\ isUserRepo(records[i], usernames)
        /\ Destination(records[i]) \notin before[i].repos
        /\ outcome[i] = "Imported"
        /\ Len(CallsOf(i)) = 4

----------------------------------------------------------------------------
(* The namespace classifier on its own: a namespace string and a --user    *)
(* list are drawn, then organizationNameFromGroupName is applied, applied  *)
(* to its own result, and isUserRepo is asked.                             *)

NameAlphabet == {"a", "B", "7", "-", ".", "/", " ", "U+00E9", "U+00C9"}

Names == SeqsUpTo(NameAlphabet, MaxNameLen)

ClassifierSupplied ==
    {<<>>, << <<"A">> >>, << <<"b">> >>, << <<"a", "B">>, <<"U+00C9">> >>,
     << <<"a", "/", "B">>, <<"7">> >>}

InitClassifier ==
    /\ arg \in Names
    /\ supplied \in ClassifierSupplied
    /\ usernames = InitUsernames(supplied)
    /\ backupfile = <<>>
    /\ records = <<>>
    /\ gogs = [repos |-> {}, tokens |-> {}, pushed |-> {}]
    /\ pc = "classify"
    /\ idx = 1
    /\ calls = <<>>
    /\ outcome = <<>>
    /\ before = <<>>
    /\ fs = <<>>
    /\ error = "none"
    /\ run = "first"
    /\ runStart = gogs
    /\ stdout = <<>>
    /\ ret = <<>>
    /\ ret2 = <<>>
    /\ retUser = FALSE

ClassifierFrame ==
    UNCHANGED <<supplied, backupfile, usernames, gogs, idx, calls, outcome,
                before, fs, error, run, runStart, stdout, arg, records>>

ApplyOrganizationName ==
    /\ pc = "classify"
    /\ ret' = organizationNameFromGroupName(arg)
    /\ pc' = "applied"
    /\ UNCHANGED <<ret2, retUser>>
    /\ ClassifierFrame

ApplyOrganizationNameAgain ==
    /\ pc = "applied"
    /\ ret2' = organizationNameFromGroupName(ret)
    /\ pc' = "again"
    /\ UNCHANGED <<ret, retUser>>
    /\ ClassifierFrame

AskIsUserRepo ==
    /\ pc = "again"
    /\ retUser' = isUserRepo([bundle |-> Member(arg, sP), membership |-> arg,
                              name |-> sP], usernames)
    /\ pc' = "classified"
    /\ UNCHANGED <<ret, ret2>>
    /\ ClassifierFrame

NextClassifier == ApplyOrganizationName \/ ApplyOrganizationNameAgain \/ AskIsUserRepo

SpecClassifier == InitClassifier /\ [][NextClassifier]_vars

\* the rule "each character outside [0-9a-zA-Z-_./] becomes '_', then each
\* '/' becomes '.'", applied to s
Sanitized(s) ==
    [i \in 1..Len(s) |->
        IF s[i] = "/" THEN "."
        ELSE IF s[i] \in AsciiAlnum \cup {"-", "_", "."} THEN s[i]
        ELSE "_"]

HasCharOutsideClass(s) ==
    \E i \in 1..Len(s) : s[i] \notin AsciiAlnum \cup {"-", "_", ".", "/"}

\* C6: for a namespace with at least one character outside [0-9a-zA-Z-_./]
\* (non-ASCII letters and digits included) the result is the string with
\* each such character replaced by '_' and each '/' by '.'.
C6_SanitizesOutsideClass ==
    (pc # "classify" /\ HasCharOutsideClass(arg)) => ret = Sanitized(arg)

\* C7: organizationNameFromGroupName is idempotent: applied to its own
\* result it gives that result again.
C7_Idempotent ==
    pc \in {"again", "classified"} => ret2 = ret

\* C7 witness: the function changed the namespace and was applied again
C7_Witness ==
    /\ pc = "again"
    /\ ret # arg
    /\ \E i \in 1..Len(arg) : arg[i] = "/"
    /\ \E i \in 1..Len(arg) : arg[i] = " "

IsAsciiAlnumString(s) == Len(s) > 0 /\ \A i \in 1..Len(s) : s[i] \in AsciiAlnum

\* C8: a non-empty namespace of ASCII letters and digits only comes back
\* unchanged.
C8_AsciiAlnumUnchanged ==
    (pc # "classify" /\ IsAsciiAlnumString(arg)) => ret = arg

\* C8 witness: the function was applied to a string of ASCII letters and a digit
C8_Witness ==
    /\ pc = "applied"
    /\ IsAsciiAlnumString(arg)
    /\ Len(arg) = MaxNameLen
    /\ \E i \in 1..Len(arg) : arg[i] \in Digits

\* C9: isUserRepo is true iff the lower-cased namespace equals the
\* lower-cased form of one of the usernames the operator supplied (so
\* namespaces that differ only in letter case are classified alike, however
\* the usernames were typed).
C9_CaseInsensitiveMembership ==
    pc = "classified" =>
        (retUser <=> \E i \in 1..Len(supplied) : lower(arg) = lower(supplied[i]))

\* C9 witness: a namespace was classified as a user though it matches no
\* supplied username letter for letter
C9_Witness ==
    /\ pc = "classified"
    /\ retUser
    /\ \A i \in 1..Len(supplied) : arg # supplied[i]

----------------------------------------------------------------------------
(* The archive index on its own: an archive is drawn and iterated once *)

PathHeads == {RepoDir, <<"x">> \o RepoDir, SubSeq(RepoDir, 1, Len(RepoDir) - 1), <<>>}

PathTails ==
    {BundleExt, BundleExt \o <<LF>>, BundleExt \o <<"x">>,
     SubSeq(BundleExt, 2, Len(BundleExt)), <<>>}

PathMiddles == SeqsUpTo({"a", "/", LF}, MaxMidLen)

Paths == {h \o m \o t : h \in PathHeads, m \in PathMiddles, t \in PathTails}

InitIter ==
    /\ backupfile \in {<<path>> : path \in Paths} \cup SeqsUpTo(Members, MaxMembers)
    /\ supplied = <<>>
    /\ usernames = InitUsernames(supplied)
    /\ records = <<>>
    /\ gogs = [repos |-> {}, tokens |-> {}, pushed |-> {}]
    /\ pc = "iter"
    /\ idx = 1
    /\ calls = <<>>
    /\ outcome = <<>>
    /\ before = <<>>
    /\ fs = <<>>
    /\ error = "none"
    /\ run = "first"
    /\ runStart = gogs
    /\ Idle

\* list(iter(self))
IterateArchive ==
    /\ pc = "iter"
    /\ records' = iter(backupfile)
    /\ pc' = "iterated"
    /\ UNCHANGED <<supplied, backupfile, usernames, gogs, idx, calls, outcome,
                   before, fs, error, run, runStart, stdout, arg, ret, ret2, retUser>>

NextIter == IterateArchive

SpecIter == InitIter /\ [][NextIter]_vars

\* the path is 'repositories/', a namespace, '/', a name, '.bundle'
HasShape(path) ==
    /\ Len(path) >= Len(RepoDir) + 1 + Len(BundleExt)
    /\ SubSeq(path, 1, Len(RepoDir)) = RepoDir
    /\ SubSeq(path, Len(path) - Len(BundleExt) + 1, Len(path)) = BundleExt
    /\ \E k \in (Len(RepoDir) + 1)..(Len(path) - Len(BundleExt)) : path[k] = "/"

LastSlash(path) == SetMax({k \in 1..Len(path) : path[k] = "/"})

\* the record of a path of that shape: the namespace runs from
\* 'repositories/' to the last '/', the name from there to '.bundle'
ShapeRecord(path) ==
    [bundle |-> path,
     membership |-> SubSeq(path, Len(RepoDir) + 1, LastSlash(path) - 1),
     name |-> SubSeq(path, LastSlash(path) + 1, Len(path) - Len(BundleExt))]

ShapeRecords(members) ==
    LET shaped == SelectSeq(members, HasShape)
    IN  [i \in 1..Len(shaped) |-> ShapeRecord(shaped[i])]

\* C5: iterating the archive yields, in member order, exactly one record for
\* each member of the shape repositories/<namespace>/<name>.bundle and none
\* for any other member; the namespace is the text between 'repositories/'
\* and the last '/', the name the text between that '/' and '.bundle'.
C5_RecordsAreShapedMembers ==
    pc = "iterated" => records = ShapeRecords(backupfile)

\* the same statement for archives whose member paths hold no line feed
RecordsAreShapedMembersWithoutLineFeed ==
    (pc = "iterated" /\ \A i \in 1..Len(backupfile) : HasNoLF(backupfile[i])) =>
        records = ShapeRecords(backupfile)

----------------------------------------------------------------------------
(* The analyze command: analyzeRepos *)

\* a dict is the sequence of its (key, value) pairs in insertion order

\* faulty variant: every assignment adds an entry (a list, not a dict)
DictSet_append(d, key, value) == Append(d, <<key, value>>)

\* d[key] = value
DictSet(d, key, value) ==
    IF \E i \in 1..Len(d) : d[i][1] = key
    THEN [i \in 1..Len(d) |-> IF d[i][1] = key THEN <<key, value>> ELSE d[i]]
    ELSE Append(d, <<key, value>>)

sUsersHeader == <<"U", "s", "e", "r", "s", ":">>
sOrganizationsHeader ==
    <<"O", "r", "g", "a", "n", "i", "z", "a", "t", "i", "o", "n", "s", " ", "(",
      "G", "i", "t", "L", "a", "b", " ", "-", ">", " ", "G", "o", "g", "s", ")", ":">>
sDash == <<"-", " ">>
sArrow == <<" ", "-", ">", " ">>

RECURSIVE AnalyzeLoop(_, _, _, _)
\* lines 118-124: the dicts after the records from i on were visited
AnalyzeLoop(recs, names, i, dicts) ==
    IF i > Len(recs) THEN dicts
    ELSE LET gitlabrepo == recs[i]
         IN  AnalyzeLoop(recs, names, i + 1,
                 IF isUserRepo(gitlabrepo, names)
                 THEN [dicts EXCEPT !.users =
                          DictSet(@, gitlabrepo.membership, gitlabrepo.membership)]
                 ELSE [dicts EXCEPT !.organizations =
                          DictSet(@, gitlabrepo.membership,
                                  organizationNameFromGroupName(gitlabrepo.membership))])

\* lines 126-134: what analyzeRepos echoes
ReportLines(dicts) ==
    LET users == dicts.users
        organizations == dicts.organizations
    IN  (IF Len(users) > 0
         THEN <<sUsersHeader>> \o [i \in 1..Len(users) |-> sDash \o users[i][1]]
         ELSE <<>>)
        \o
        (IF Len(organizations) > 0
         THEN <<sOrganizationsHeader>> \o
              [i \in 1..Len(organizations) |->
                  sDash \o organizations[i][1] \o sArrow \o organizations[i][2]]
         ELSE <<>>)

InitAnalyze ==
    /\ backupfile \in SeqsUpTo(Members, MaxMembers)
    /\ supplied \in SuppliedChoices
    /\ usernames = InitUsernames(supplied)
    /\ records = <<>>
    /\ gogs \in InitialRemotes
    /\ pc = "analyze"
    /\ idx = 1
    /\ calls = <<>>
    /\ outcome = <<>>
    /\ before = <<>>
    /\ fs = <<>>
    /\ error = "none"
    /\ run = "first"
    /\ runStart = gogs
    /\ Idle

\* faulty variant: the report asks the server about every record it lists
analyzeRepos_asksServer ==
    /\ pc = "analyze"
    /\ records' = iter(backupfile)
    /\ stdout' = ReportLines(AnalyzeLoop(records', usernames, 1,
                                         [users |-> <<>>, organizations |-> <<>>]))
    /\ calls' = [i \in 1..Len(records') |->
                    <<i, Call("repo_exists", gogsadmin, records'[i].membership,
                              records'[i].name, TRUE)>>]
    /\ pc' = "analyzed"
    /\ UNCHANGED <<supplied, backupfile, usernames, gogs, idx, outcome,
                   before, fs, error, run, runStart, arg, ret, ret2, retUser>>

analyzeRepos ==
    /\ pc = "analyze"
    /\ records' = iter(backupfile)
    /\ stdout' = ReportLines(AnalyzeLoop(records', usernames, 1,
                                         [users |-> <<>>, organizations |-> <<>>]))
    /\ pc' = "analyzed"
    /\ UNCHANGED <<supplied, backupfile, usernames, gogs, idx, calls, outcome,
                   before, fs, error, run, runStart, arg, ret, ret2, retUser>>

NextAnalyze == analyzeRepos

SpecAnalyze == InitAnalyze /\ [][NextAnalyze]_vars

\* where a header line stands in the report, 0 if it is not there
LineOf(header) ==
    IF \E i \in 1..Len(stdout) : stdout[i] = header
    THEN CHOOSE i \in 1..Len(stdout) : stdout[i] = header
    ELSE 0

InUsersSection(i) ==
    /\ LineOf(sUsersHeader) > 0
    /\ i > LineOf(sUsersHeader)
    /\ LineOf(sOrganizationsHeader) > 0 => i < LineOf(sOrganizationsHeader)

InOrganizationsSection(i) ==
    /\ LineOf(sOrganizationsHeader) > 0
    /\ i > LineOf(sOrganizationsHeader)

StartsWith(s, prefix) ==
    Len(s) >= Len(prefix) /\ SubSeq(s, 1, Len(prefix)) = prefix

\* the lines of the users section that name the namespace
UserLinesOf(namespace) ==
    {i \in 1..Len(stdout) : InUsersSection(i) /\ stdout[i] = sDash \o namespace}

\* the lines of the organizations section that map the namespace
OrganizationLinesOf(namespace) ==
    {i \in 1..Len(stdout) :
        InOrganizationsSection(i) /\ StartsWith(stdout[i], sDash \o namespace \o sArrow)}

IsKnownUsername(namespace) ==
    \E i \in 1..Len(supplied) : lower(namespace) = lower(supplied[i])

Namespaces == {records[i].membership : i \in 1..Len(records)}

HeaderCount ==
    Cardinality({h \in {sUsersHeader, sOrganizationsHeader} : LineOf(h) > 0})

\* C10: in the report every distinct namespace of the archive has exactly
\* one line, however many bundles it owns: in the users section verbatim if
\* it is a known username, else in the organizations section as
\* '<namespace> -> <derived organization id>'; none is in both sections or
\* twice in one, and the report has no other lines than these and the
\* section headers.
C10_OneLinePerNamespace ==
    pc = "analyzed" =>
        /\ \A ns \in Namespaces :
               IF IsKnownUsername(ns)
               THEN /\ Cardinality(UserLinesOf(ns)) = 1
                    /\ OrganizationLinesOf(ns) = {}
               ELSE /\ UserLinesOf(ns) = {}
                    /\ Cardinality(OrganizationLinesOf(ns)) = 1
                    /\ \A i \in OrganizationLinesOf(ns) :
                           stdout[i] = sDash \o ns \o sArrow
                                       \o organizationNameFromGroupName(ns)
        /\ Len(stdout) = Cardinality(Namespaces) + HeaderCount

\* C10 witness: a group namespace owning two bundles was reported
C10_Witness ==
    /\ pc = "analyzed"
    /\ Len(records) >= 2
    /\ records[1].membership = records[2].membership
    /\ records[1].name # records[2].name
    /\ ~IsKnownUsername(records[1].membership)

\* C11: the analyze command makes no remote call: no existence query, token,
\* create or push operation, and the remote state is as it was, for any
\* archive and any username set.
C11_AnalyzeMakesNoRemoteCall ==
    pc = "analyzed" => (calls = <<>> /\ gogs = runStart)

\* C11 witness: analyze reported an archive with records while the server
\* holds repositories
C11_Witness ==
    /\ pc = "analyzed"
    /\ Len(records) > 0
    /\ Len(stdout) > 0
    /\ gogs.repos # {}

----------------------------------------------------------------------------
(* More claims about the import command *)

\* C12: for a group record the existence check, the create_repo call and
\* the push URL all use the organization id derived from the record's
\* namespace as owner, and the ensured token is the administrative
\* account's.
C12_GroupCallsUseOrganization ==
    \A i \in 1..Len(outcome) :
        ~isUserRepo(records[i], usernames) =>
            \A k \in 1..Len(CallsOf(i)) :
                LET c == CallsOf(i)[k]
                IN  /\ c.op \in {"repo_exists", "create_repo", "push"} =>
                           c.owner = organizationNameFromGroupName(records[i].membership)
                    /\ c.op = "ensure_token" => c.owner = gogsadmin

\* C13: once importRepo has left a record, by return or by raising at any
\* step, nothing of the record's temporary directory exists: not the
\* directory, not the staged bundle, not the clone.
C13_TempDirectoryRemoved ==
    \A i \in 1..Len(fs) : ~fs[i].tempdir /\ ~fs[i].bundle /\ ~fs[i].clone

\* C13 witness: importRepo was left by an exception of the push, with the
\* bundle staged and the clone made
C13_Witness ==
    \E i \in 1..Len(fs) :
        /\ fs[i].fault = "push"
        /\ fs[i].raised # "none"
        /\ fs[i].cloneMade

\* C14: records are processed one at a time in archive order: the k-th
\* attempt of a run is for the k-th record, so none is attempted twice, and
\* when a record is attempted every record before it has reached Imported,
\* Skipped or Failed and its temporary directory is gone.
C14_OneAtATimeInOrder ==
    /\ Len(fs) <= Len(records)
    /\ Len(outcome) = Len(fs)
    /\ \A i \in 1..Len(fs) :
           /\ fs[i].index = i
           /\ fs[i].member = records[i].bundle
           /\ i < Len(fs) =>
                  /\ outcome[i] \in {"Imported", "Skipped", "Failed"}
                  /\ ~fs[i].tempdir

\* C14 witness: a run went through two records
C14_Witness ==
    /\ pc = "done"
    /\ Len(fs) = 2
    /\ fs[1].member # fs[2].member

\* the destination a create_repo call creates
CreatedBy(c) == <<CreateOwner(c.auth, c.owner), c.name>>

\* C16: in one run no destination (owner, name) gets more than one
\* create_repo call, also with duplicate records or group namespaces that
\* sanitize to one organization id: the later record is skipped by the
\* existence check.
C16_OneCreatePerDestination ==
    /\ \A j, k \in 1..Len(calls) :
           (calls[j][2].op = "create_repo" /\ calls[k][2].op = "create_repo"
               /\ CreatedBy(calls[j][2]) = CreatedBy(calls[k][2])) => j = k
    /\ \A i, j \in 1..Len(outcome) :
           (i < j /\ Destination(records[i]) = Destination(records[j])
               /\ outcome[i] = "Imported" /\ fs[j].fault = "none") =>
                   outcome[j] = "Skipped"

\* C17: a record is skipped only when its own destination exists, and at
\* the end of a run in which no operation failed every record's
\* destination exists on the server, whatever else the server held.
C17_SkippedOnlyIfDestinationExists ==
    /\ \A i \in 1..Len(outcome) :
           outcome[i] = "Skipped" => Destination(records[i]) \in before[i].repos
    /\ (pc = "done" /\ NoFault /\ \A i \in 1..Len(outcome) : outcome[i] # "Failed") =>
           \A i \in 1..Len(records) : Destination(records[i]) \in gogs.repos

\* C18: when extract or clone failed and no clone directory was made, the
\* cleanup raises nothing of its own: the exception that leaves importRepo
\* is the one of the failed step, and no remote call was made.
C18_CleanupKeepsOriginalError ==
    \A i \in 1..Len(fs) :
        (fs[i].fault \in {"extract", "clone"} /\ ~fs[i].cloneMade) =>
            /\ fs[i].raised = fs[i].bodyRaised
            /\ CallsOf(i) = <<>>

----------------------------------------------------------------------------
(* The analyze command followed by the import command, on one archive with *)
(* one --user list                                                         *)

InitBoth ==
    /\ supplied \in SuppliedChoices
    /\ backupfile \in Archives
    /\ usernames = InitUsernames(supplied)
    /\ records = <<>>
    /\ gogs \in InitialRemotes
    /\ pc = "analyze"
    /\ idx = 1
    /\ calls = <<>>
    /\ outcome = <<>>
    /\ before = <<>>
    /\ fs = <<>>
    /\ error = "none"
    /\ run = "first"
    /\ runStart = gogs
    /\ Idle

\* the operator runs import after analyze: a new GitlabBackup, iterated anew
StartImport ==
    /\ pc = "analyzed"
    /\ pc' = "import"
    /\ records' = iter(backupfile)
    /\ UNCHANGED <<supplied, backupfile, usernames, gogs, idx, calls, outcome,
                   before, fs, error, run, runStart, stdout, arg, ret, ret2, retUser>>

NextBoth == analyzeRepos \/ StartImport \/ ImportRecord \/ ImportFinish

SpecBoth == InitBoth /\ [][NextBoth]_vars

\* C15: the report and the import agree on every record: a record goes to
\* importUserRepo iff its namespace is listed under users, and for a record
\* that goes to importGroupRepo the organization id printed for its
\* namespace is the owner of its create_repo call and of its push URL.
C15_ReportAndImportAgree ==
    \A i \in 1..Len(fs) :
        LET ns == records[i].membership
        IN  /\ fs[i].strategy = "user" =>
                   (UserLinesOf(ns) # {} /\ OrganizationLinesOf(ns) = {})
            /\ fs[i].strategy = "group" =>
                   /\ UserLinesOf(ns) = {}
                   /\ OrganizationLinesOf(ns) # {}
                   /\ \A k \in 1..Len(CallsOf(i)) :
                          CallsOf(i)[k].op \in {"create_repo", "push"} =>
                              \A line \in OrganizationLinesOf(ns) :
                                  stdout[line] =
                                      sDash \o ns \o sArrow \o CallsOf(i)[k].owner

\* C15 witness: after the report, a group record whose organization id
\* differs from its namespace was created and pushed, and a user record
\* was imported
C15_Witness ==
    /\ \E i \in 1..Len(fs) :
           /\ fs[i].strategy = "group"
           /\ outcome[i] = "Imported"
           /\ organizationNameFromGroupName(records[i].membership)
                  # records[i].membership
    /\ \E i \in 1..Len(fs) : fs[i].strategy = "user" /\ outcome[i] = "Imported"
    /\ Len(stdout) > 0

====
